---- MODULE Spec2Model ----
(***************************************************************************)
(* Entity store (hommes / femmes / couples tables) and the store-backed    *)
(* random pairing service of RandomGift-Backend.                           *)
(*                                                                         *)
(* The store (storage/memory_store.py) addresses the tables through the    *)
(* aliases Participant = Homme, Gift = Femme, Association = Couple; its    *)
(* column names participant / gift denote the numero of a row of the       *)
(* hommes / femmes table and the two members of a row of the couples       *)
(* table.  The reset routes (routes/status.py) name the store's            *)
(* get_associations / reset_associations as get_couples / reset_couples.   *)
(***************************************************************************)
EXTENDS Integers, Sequences, FiniteSets, TLC

\* Identifiers that requests may carry are 1..MaxNumero.
MaxNumero == 2
\* Longest identifier list of one bulk request.
MaxBulk == 2
\* Cap on the number of rows of the couples table (archived rows accumulate).
MaxCouples == 3

Numeros == 1..MaxNumero

VARIABLES
    hommes,     \* rows of table hommes, in insertion order
    femmes,     \* rows of table femmes, in insertion order
    couples,    \* rows of table couples, in insertion order
    ret         \* what the last operation was given and what it returned

vars == <<hommes, femmes, couples, ret>>

-----------------------------------------------------------------------------
(* Rows *)

\* A freshly inserted entity row: is_archived defaults to False.
Homme(n) == [numero |-> n, is_archived |-> FALSE]
Femme(n) == [numero |-> n, is_archived |-> FALSE]
\* A freshly inserted association row.
Couple(p, g) == [participant |-> p, gift |-> g, is_archived |-> FALSE]

Min(a, b) == IF a <= b THEN a ELSE b

Front(s) == SubSeq(s, 1, Len(s) - 1)

\* Index of the first row of t satisfying P (query ... .first()), 0 if none.
First(t, P(_)) ==
    IF \E i \in 1..Len(t) : P(t[i])
    THEN CHOOSE i \in 1..Len(t) : P(t[i]) /\ \A j \in 1..(i - 1) : ~P(t[j])
    ELSE 0

\* Set is_archived on row i of t (i = 0: no row).
Archive(t, i) ==
    [j \in 1..Len(t) |-> IF j = i THEN [t[j] EXCEPT !.is_archived = TRUE] ELSE t[j]]

\* numero = db.Column(db.Integer, unique=True, ...): the table refuses a second
\* row with the same numero, archived or not (IntegrityError at commit).
UniqueViolation(t, n) == \E i \in 1..Len(t) : t[i].numero = n

-----------------------------------------------------------------------------
(* Store operations as functions of the tables *)

\* add_participant inserting without looking at the table.
add_participant_unchecked(t, participant) ==
    [rows |-> Append(t, Homme(participant)), value |-> TRUE, error |-> FALSE]

add_participant(t, participant) ==
    LET existing == First(t, LAMBDA r : r.numero = participant /\ ~r.is_archived)
    IN  IF existing # 0
        THEN [rows |-> t, value |-> FALSE, error |-> FALSE]
        ELSE IF UniqueViolation(t, participant)
        THEN [rows |-> t, value |-> FALSE, error |-> TRUE]
        ELSE [rows |-> Append(t, Homme(participant)), value |-> TRUE, error |-> FALSE]

add_gift(t, gift) ==
    LET existing == First(t, LAMBDA r : r.numero = gift /\ ~r.is_archived)
    IN  IF existing # 0
        THEN [rows |-> t, value |-> FALSE, error |-> FALSE]
        ELSE IF UniqueViolation(t, gift)
        THEN [rows |-> t, value |-> FALSE, error |-> TRUE]
        ELSE [rows |-> Append(t, Femme(gift)), value |-> TRUE, error |-> FALSE]

\* The loop of add_participants_bulk over the input list; an exception raised
\* by one add leaves the loop, the rows committed before it stay.
RECURSIVE participants_loop(_, _, _, _)
participants_loop(t, participants, added, ignored) ==
    IF participants = << >>
    THEN [rows |-> t, added |-> added, ignored |-> ignored, error |-> FALSE]
    ELSE LET participant == Head(participants)
             r == add_participant(t, participant)
         IN  IF r.error
             THEN [rows |-> t, added |-> added, ignored |-> ignored, error |-> TRUE]
             ELSE IF r.value
             THEN participants_loop(r.rows, Tail(participants),
                                    Append(added, participant), ignored)
             ELSE participants_loop(r.rows, Tail(participants),
                                    added, Append(ignored, participant))

add_participants_bulk(t, participants) ==
    participants_loop(t, participants, << >>, << >>)

RECURSIVE gifts_loop(_, _, _, _)
gifts_loop(t, gifts, added, ignored) ==
    IF gifts = << >>
    THEN [rows |-> t, added |-> added, ignored |-> ignored, error |-> FALSE]
    ELSE LET gift == Head(gifts)
             r == add_gift(t, gift)
         IN  IF r.error
             THEN [rows |-> t, added |-> added, ignored |-> ignored, error |-> TRUE]
             ELSE IF r.value
             THEN gifts_loop(r.rows, Tail(gifts), Append(added, gift), ignored)
             ELSE gifts_loop(r.rows, Tail(gifts), added, Append(ignored, gift))

add_gifts_bulk(t, gifts) ==
    gifts_loop(t, gifts, << >>, << >>)

\* remove_participant that leaves the association of the participant alone.
remove_participant_nocascade(h, c, participant) ==
    LET participant_obj == First(h, LAMBDA r : r.numero = participant /\ ~r.is_archived)
        association == First(c, LAMBDA a : a.participant = participant /\ ~a.is_archived)
    IN  IF participant_obj = 0
        THEN [rows |-> h, couples |-> c, value |-> FALSE, association |-> FALSE]
        ELSE [rows |-> Archive(h, participant_obj), couples |-> c, value |-> TRUE,
              association |-> association # 0]

\* remove_participant looking the row up without the filter on is_archived.
remove_participant_anyrow(h, c, participant) ==
    LET participant_obj == First(h, LAMBDA r : r.numero = participant)
        association == First(c, LAMBDA a : a.participant = participant /\ ~a.is_archived)
    IN  IF participant_obj = 0
        THEN [rows |-> h, couples |-> c, value |-> FALSE, association |-> FALSE]
        ELSE [rows |-> Archive(h, participant_obj),
              couples |-> Archive(c, association), value |-> TRUE,
              association |-> association # 0]

remove_participant(h, c, participant) ==
    LET participant_obj == First(h, LAMBDA r : r.numero = participant /\ ~r.is_archived)
        association == First(c, LAMBDA a : a.participant = participant /\ ~a.is_archived)
    IN  IF participant_obj = 0
        THEN [rows |-> h, couples |-> c, value |-> FALSE, association |-> FALSE]
        ELSE [rows |-> Archive(h, participant_obj),
              couples |-> Archive(c, association), value |-> TRUE,
              association |-> association # 0]

\* remove_gift that leaves the association of the gift alone.
remove_gift_nocascade(f, c, gift) ==
    LET gift_obj == First(f, LAMBDA r : r.numero = gift /\ ~r.is_archived)
        association == First(c, LAMBDA a : a.gift = gift /\ ~a.is_archived)
    IN  IF gift_obj = 0
        THEN [rows |-> f, couples |-> c, value |-> FALSE, association |-> FALSE]
        ELSE [rows |-> Archive(f, gift_obj), couples |-> c, value |-> TRUE,
              association |-> association # 0]

remove_gift(f, c, gift) ==
    LET gift_obj == First(f, LAMBDA r : r.numero = gift /\ ~r.is_archived)
        association == First(c, LAMBDA a : a.gift = gift /\ ~a.is_archived)
    IN  IF gift_obj = 0
        THEN [rows |-> f, couples |-> c, value |-> FALSE, association |-> FALSE]
        ELSE [rows |-> Archive(f, gift_obj),
              couples |-> Archive(c, association), value |-> TRUE,
              association |-> association # 0]

\* Identifiers of the non-archived rows, in table order.
RECURSIVE Numeros_of(_)
Numeros_of(t) ==
    IF t = << >> THEN << >> ELSE <<Head(t).numero>> \o Numeros_of(Tail(t))

get_participants(h) == Numeros_of(SelectSeq(h, LAMBDA r : ~r.is_archived))

get_gifts(f) == Numeros_of(SelectSeq(f, LAMBDA r : ~r.is_archived))

\* get_unassociated_participants without the filter on is_archived.
get_unassociated_participants_archived(h, c) ==
    Numeros_of(SelectSeq(h, LAMBDA r :
        ~\E i \in 1..Len(c) : c[i].participant = r.numero /\ ~c[i].is_archived))

get_unassociated_participants(h, c) ==
    Numeros_of(SelectSeq(h, LAMBDA r :
        /\ ~r.is_archived
        /\ ~\E i \in 1..Len(c) : c[i].participant = r.numero /\ ~c[i].is_archived))

\* get_unassociated_gifts without the join on the active associations.
get_unassociated_gifts_nojoin(f, c) ==
    Numeros_of(SelectSeq(f, LAMBDA r : ~r.is_archived))

get_unassociated_gifts(f, c) ==
    Numeros_of(SelectSeq(f, LAMBDA r :
        /\ ~r.is_archived
        /\ ~\E i \in 1..Len(c) : c[i].gift = r.numero /\ ~c[i].is_archived))

\* add_association that looks the participant up without the is_archived filter
\* and rewrites the row it finds instead of inserting.
add_association_upsert(c, participant, gift) ==
    LET existing == First(c, LAMBDA a : a.participant = participant)
    IN  IF existing # 0
        THEN [couples |-> [c EXCEPT ![existing] = Couple(participant, gift)],
              value |-> TRUE]
        ELSE [couples |-> Append(c, Couple(participant, gift)), value |-> TRUE]

\* add_association inserting without looking for an active association of the
\* participant.
add_association_nocheck(c, participant, gift) ==
    [couples |-> Append(c, Couple(participant, gift)), value |-> TRUE]

add_association(c, participant, gift) ==
    LET existing == First(c, LAMBDA a : a.participant = participant /\ ~a.is_archived)
    IN  IF existing # 0
        THEN [couples |-> c, value |-> FALSE]
        ELSE [couples |-> Append(c, Couple(participant, gift)), value |-> TRUE]

\* remove_association archiving every active association.
remove_association_all(c, participant) ==
    LET association == First(c, LAMBDA a : a.participant = participant /\ ~a.is_archived)
    IN  IF association = 0
        THEN [couples |-> c, value |-> FALSE]
        ELSE [couples |-> [i \in 1..Len(c) |-> [c[i] EXCEPT !.is_archived = TRUE]],
              value |-> TRUE]

remove_association(c, participant) ==
    LET association == First(c, LAMBDA a : a.participant = participant /\ ~a.is_archived)
    IN  IF association = 0
        THEN [couples |-> c, value |-> FALSE]
        ELSE [couples |-> Archive(c, association), value |-> TRUE]

get_associations(c) == SelectSeq(c, LAMBDA a : ~a.is_archived)

\* reset_associations counting every row of the table.
reset_associations_countall(c) ==
    [couples |-> SelectSeq(c, LAMBDA a : a.is_archived), count |-> Len(c)]

reset_associations(c) ==
    [couples |-> SelectSeq(c, LAMBDA a : a.is_archived),
     count |-> Len(SelectSeq(c, LAMBDA a : ~a.is_archived))]

\* get_status reading the associations without the filter on is_archived.
get_status_archived(h, f, c) ==
    LET all_participants == SelectSeq(h, LAMBDA r : ~r.is_archived)
        all_gifts == SelectSeq(f, LAMBDA r : ~r.is_archived)
        all_associations == c
        associated_participants ==
            [i \in 1..Len(all_associations) |-> all_associations[i].participant]
        associated_gifts ==
            [i \in 1..Len(all_associations) |-> all_associations[i].gift]
        unassociated_participants ==
            Numeros_of(SelectSeq(all_participants, LAMBDA r :
                ~\E i \in 1..Len(associated_participants) :
                    associated_participants[i] = r.numero))
        unassociated_gifts ==
            Numeros_of(SelectSeq(all_gifts, LAMBDA r :
                ~\E i \in 1..Len(associated_gifts) : associated_gifts[i] = r.numero))
    IN  [participants |->
            [total |-> Len(all_participants),
             associated |-> Len(associated_participants),
             unassociated |-> Len(unassociated_participants),
             list_associated |-> associated_participants,
             list_unassociated |-> unassociated_participants],
         gifts |->
            [total |-> Len(all_gifts),
             associated |-> Len(associated_gifts),
             unassociated |-> Len(unassociated_gifts),
             list_associated |-> associated_gifts,
             list_unassociated |-> unassociated_gifts],
         associations |->
            [total |-> Len(all_associations),
             details |-> all_associations]]

get_status(h, f, c) ==
    LET all_participants == SelectSeq(h, LAMBDA r : ~r.is_archived)
        all_gifts == SelectSeq(f, LAMBDA r : ~r.is_archived)
        all_associations == SelectSeq(c, LAMBDA a : ~a.is_archived)
        associated_participants ==
            [i \in 1..Len(all_associations) |-> all_associations[i].participant]
        associated_gifts ==
            [i \in 1..Len(all_associations) |-> all_associations[i].gift]
        unassociated_participants ==
            Numeros_of(SelectSeq(all_participants, LAMBDA r :
                ~\E i \in 1..Len(associated_participants) :
                    associated_participants[i] = r.numero))
        unassociated_gifts ==
            Numeros_of(SelectSeq(all_gifts, LAMBDA r :
                ~\E i \in 1..Len(associated_gifts) : associated_gifts[i] = r.numero))
    IN  [participants |->
            [total |-> Len(all_participants),
             associated |-> Len(associated_participants),
             unassociated |-> Len(unassociated_participants),
             list_associated |-> associated_participants,
             list_unassociated |-> unassociated_participants],
         gifts |->
            [total |-> Len(all_gifts),
             associated |-> Len(associated_gifts),
             unassociated |-> Len(unassociated_gifts),
             list_associated |-> associated_gifts,
             list_unassociated |-> unassociated_gifts],
         associations |->
            [total |-> Len(all_associations),
             details |-> all_associations]]

reset == [hommes |-> << >>, femmes |-> << >>, couples |-> << >>]

-----------------------------------------------------------------------------
(* Pairing service (services/association_service.py) *)

\* The outcomes of random.shuffle on list l: every arrangement of l.
Shuffles(l) ==
    LET n == Len(l)
        perms == {p \in [1..n -> 1..n] : \A i, j \in 1..n : p[i] = p[j] => i = j}
    IN  {[i \in 1..n |-> l[p[i]]] : p \in perms}

\* Step 1: pop one homme and one femme, store the association, report an H-F
\* couple, while both lists are non-empty.
\* associate_HF reading the last femme without removing it from the list.
RECURSIVE associate_HF_nopop(_, _, _, _)
associate_HF_nopop(hommes_list, femmes_list, c, out) ==
    IF hommes_list = << >> \/ femmes_list = << >>
    THEN [hommes_list |-> hommes_list, femmes_list |-> femmes_list,
          couples |-> c, out |-> out]
    ELSE LET homme == hommes_list[Len(hommes_list)]
             femme == femmes_list[Len(femmes_list)]
         IN  associate_HF_nopop(Front(hommes_list), femmes_list,
                                add_association(c, homme, femme).couples,
                                Append(out, [type |-> "H-F", personne1 |-> homme,
                                             personne2 |-> femme]))

\* associate_HF leaving the loop after its first couple.
associate_HF_single(hommes_list, femmes_list, c, out) ==
    IF hommes_list = << >> \/ femmes_list = << >>
    THEN [hommes_list |-> hommes_list, femmes_list |-> femmes_list,
          couples |-> c, out |-> out]
    ELSE LET homme == hommes_list[Len(hommes_list)]
             femme == femmes_list[Len(femmes_list)]
         IN  [hommes_list |-> Front(hommes_list), femmes_list |-> Front(femmes_list),
              couples |-> add_association(c, homme, femme).couples,
              out |-> Append(out, [type |-> "H-F", personne1 |-> homme,
                                   personne2 |-> femme])]

RECURSIVE associate_HF(_, _, _, _)
associate_HF(hommes_list, femmes_list, c, out) ==
    IF hommes_list = << >> \/ femmes_list = << >>
    THEN [hommes_list |-> hommes_list, femmes_list |-> femmes_list,
          couples |-> c, out |-> out]
    ELSE LET homme == hommes_list[Len(hommes_list)]
             femme == femmes_list[Len(femmes_list)]
         IN  associate_HF(Front(hommes_list), Front(femmes_list),
                          add_association(c, homme, femme).couples,
                          Append(out, [type |-> "H-F", personne1 |-> homme,
                                       personne2 |-> femme]))

\* Steps 2 and 3: pop two of the remaining list and report a same-kind couple,
\* while at least two remain; nothing is stored.
\* associate_same that stores each same-kind couple with add_association.
RECURSIVE associate_same_stored(_, _, _, _)
associate_same_stored(list, type, c, out) ==
    IF Len(list) < 2
    THEN [list |-> list, couples |-> c, out |-> out]
    ELSE LET personne1 == list[Len(list)]
             personne2 == list[Len(list) - 1]
         IN  associate_same_stored(SubSeq(list, 1, Len(list) - 2), type,
                                   add_association(c, personne1, personne2).couples,
                                   Append(out, [type |-> type, personne1 |-> personne1,
                                                personne2 |-> personne2]))

RECURSIVE associate_same(_, _, _, _)
associate_same(list, type, c, out) ==
    IF Len(list) < 2
    THEN [list |-> list, couples |-> c, out |-> out]
    ELSE LET personne1 == list[Len(list)]
             personne2 == list[Len(list) - 1]
         IN  associate_same(SubSeq(list, 1, Len(list) - 2), type, c,
                            Append(out, [type |-> type, personne1 |-> personne1,
                                         personne2 |-> personne2]))

CountType(cs, type) == Len(SelectSeq(cs, LAMBDA x : x.type = type))

NoStatistiques ==
    [total_personnes |-> 0, total_couples |-> 0, couples_HF |-> 0,
     couples_FF |-> 0, couples_HH |-> 0, personnes_non_associees |-> 0]

\* create_random_associations refusing to pair when the hommes outnumber the
\* femmes.
create_random_associations_strict(h, f, c, hommes_list, femmes_list) ==
    LET hommes0 == get_unassociated_participants(h, c)
        femmes0 == get_unassociated_gifts(f, c)
        s1 == associate_HF(hommes_list, femmes_list, c, << >>)
        s2 == associate_same(s1.femmes_list, "F-F", s1.couples, s1.out)
        s3 == associate_same(s1.hommes_list, "H-H", s2.couples, s2.out)
        result == s3.out
    IN  IF Len(hommes0) > Len(femmes0) \/ (hommes0 = << >> /\ femmes0 = << >>)
        THEN [couples |-> c, success |-> (hommes0 = << >>), result |-> << >>,
              statistiques |-> NoStatistiques]
        ELSE [couples |-> s3.couples, success |-> TRUE, result |-> result,
              statistiques |->
                [total_personnes |-> Len(hommes0) + Len(femmes0),
                 total_couples |-> Len(result),
                 couples_HF |-> CountType(result, "H-F"),
                 couples_FF |-> CountType(result, "F-F"),
                 couples_HH |-> CountType(result, "H-H"),
                 personnes_non_associees |-> Len(s2.list) + Len(s3.list)]]

\* create_random_associations on tables h, f, c when the two shuffles give
\* hommes_list and femmes_list (hommes0, femmes0: the lists as read).
create_random_associations(h, f, c, hommes_list, femmes_list) ==
    LET hommes0 == get_unassociated_participants(h, c)
        femmes0 == get_unassociated_gifts(f, c)
        s1 == associate_HF(hommes_list, femmes_list, c, << >>)
        s2 == associate_same(s1.femmes_list, "F-F", s1.couples, s1.out)
        s3 == associate_same(s1.hommes_list, "H-H", s2.couples, s2.out)
        result == s3.out
    IN  IF hommes0 = << >> /\ femmes0 = << >>
        THEN [couples |-> c, success |-> TRUE, result |-> << >>,
              statistiques |-> NoStatistiques]
        ELSE [couples |-> s3.couples, success |-> TRUE, result |-> result,
              statistiques |->
                [total_personnes |-> Len(hommes0) + Len(femmes0),
                 total_couples |-> Len(result),
                 couples_HF |-> CountType(result, "H-F"),
                 couples_FF |-> CountType(result, "F-F"),
                 couples_HH |-> CountType(result, "H-H"),
                 personnes_non_associees |-> Len(s2.list) + Len(s3.list)]]

-----------------------------------------------------------------------------
(* The state machine: one request at a time *)

NoRet ==
    [op |-> "none", arg |-> 0, args |-> << >>, value |-> FALSE, error |-> FALSE,
     association |-> FALSE, added |-> << >>, ignored |-> << >>, result |-> << >>,
     statistiques |-> NoStatistiques, count |-> 0]

Init ==
    /\ hommes = << >>
    /\ femmes = << >>
    /\ couples = << >>
    /\ ret = NoRet

\* POST /participants
AddParticipant(n) ==
    LET r == add_participant(hommes, n)
    IN  /\ hommes' = r.rows
        /\ ret' = [NoRet EXCEPT !.op = "add_participant", !.arg = n,
                                !.value = r.value, !.error = r.error]
        /\ UNCHANGED <<femmes, couples>>

\* POST /gifts
AddGift(n) ==
    LET r == add_gift(femmes, n)
    IN  /\ femmes' = r.rows
        /\ ret' = [NoRet EXCEPT !.op = "add_gift", !.arg = n,
                                !.value = r.value, !.error = r.error]
        /\ UNCHANGED <<hommes, couples>>

\* POST /participants/bulk (JSON list; the route refuses an empty list)
AddParticipantsBulk(l) ==
    LET r == add_participants_bulk(hommes, l)
    IN  /\ hommes' = r.rows
        /\ ret' = [NoRet EXCEPT !.op = "add_participants_bulk", !.args = l,
                                !.added = r.added, !.ignored = r.ignored,
                                !.error = r.error]
        /\ UNCHANGED <<femmes, couples>>

\* POST /gifts/bulk
AddGiftsBulk(l) ==
    LET r == add_gifts_bulk(femmes, l)
    IN  /\ femmes' = r.rows
        /\ ret' = [NoRet EXCEPT !.op = "add_gifts_bulk", !.args = l,
                                !.added = r.added, !.ignored = r.ignored,
                                !.error = r.error]
        /\ UNCHANGED <<hommes, couples>>

\* DELETE /participants/<participant>
RemoveParticipant(n) ==
    LET r == remove_participant(hommes, couples, n)
    IN  /\ hommes' = r.rows
        /\ couples' = r.couples
        /\ ret' = [NoRet EXCEPT !.op = "remove_participant", !.arg = n,
                                !.value = r.value, !.association = r.association]
        /\ UNCHANGED femmes

\* DELETE /gifts/<gift>
RemoveGift(n) ==
    LET r == remove_gift(femmes, couples, n)
    IN  /\ femmes' = r.rows
        /\ couples' = r.couples
        /\ ret' = [NoRet EXCEPT !.op = "remove_gift", !.arg = n,
                                !.value = r.value, !.association = r.association]
        /\ UNCHANGED hommes

\* POST /associate
CreateAssociations ==
    /\ Len(couples) + Min(Len(get_unassociated_participants(hommes, couples)),
                          Len(get_unassociated_gifts(femmes, couples))) <= MaxCouples
    /\ \E hommes_list \in Shuffles(get_unassociated_participants(hommes, couples)),
          femmes_list \in Shuffles(get_unassociated_gifts(femmes, couples)) :
          LET r == create_random_associations(hommes, femmes, couples,
                                              hommes_list, femmes_list)
          IN  /\ couples' = r.couples
              /\ ret' = [NoRet EXCEPT !.op = "create_random_associations",
                                      !.value = r.success, !.result = r.result,
                                      !.statistiques = r.statistiques]
    /\ UNCHANGED <<hommes, femmes>>

\* DELETE /associations/<participant>: 404 unless the participant is active,
\* then the store archives its association.
DeleteAssociation(n) ==
    LET known == \E i \in 1..Len(get_participants(hommes)) :
                     get_participants(hommes)[i] = n
        r == remove_association(couples, n)
    IN  /\ couples' = IF known THEN r.couples ELSE couples
        /\ ret' = [NoRet EXCEPT !.op = "remove_association", !.arg = n,
                                !.value = known /\ r.value]
        /\ UNCHANGED <<hommes, femmes>>

\* A reset that archives every row instead of deleting it.
Reset_soft ==
    /\ hommes' = [i \in 1..Len(hommes) |-> [hommes[i] EXCEPT !.is_archived = TRUE]]
    /\ femmes' = [i \in 1..Len(femmes) |-> [femmes[i] EXCEPT !.is_archived = TRUE]]
    /\ couples' = [i \in 1..Len(couples) |-> [couples[i] EXCEPT !.is_archived = TRUE]]
    /\ ret' = [NoRet EXCEPT !.op = "reset"]

\* store.reset()
Reset ==
    /\ hommes' = reset.hommes
    /\ femmes' = reset.femmes
    /\ couples' = reset.couples
    /\ ret' = [NoRet EXCEPT !.op = "reset"]

\* store.reset_associations()
ResetAssociations ==
    LET r == reset_associations(couples)
    IN  /\ couples' = r.couples
        /\ ret' = [NoRet EXCEPT !.op = "reset_associations", !.count = r.count]
        /\ UNCHANGED <<hommes, femmes>>

BulkInputs == UNION {[1..k -> Numeros] : k \in 1..MaxBulk}

Next ==
    \/ \E n \in Numeros : AddParticipant(n)
    \/ \E n \in Numeros : AddGift(n)
    \/ \E l \in BulkInputs : AddParticipantsBulk(l)
    \/ \E l \in BulkInputs : AddGiftsBulk(l)
    \/ \E n \in Numeros : RemoveParticipant(n)
    \/ \E n \in Numeros : RemoveGift(n)
    \/ CreateAssociations
    \/ \E n \in Numeros : DeleteAssociation(n)
    \/ Reset
    \/ ResetAssociations

Spec == Init /\ [][Next]_vars

-----------------------------------------------------------------------------
TypeOK ==
    /\ \A i \in 1..Len(hommes) : hommes[i].numero \in Numeros
    /\ \A i \in 1..Len(femmes) : femmes[i].numero \in Numeros
    /\ Len(couples) <= MaxCouples

-----------------------------------------------------------------------------
(* Properties *)

\* Elements of a list.
Range(l) == {l[i] : i \in 1..Len(l)}

\* Indices of the active associations that reference participant n / gift n.
ActiveOfParticipant(c, n) ==
    {i \in 1..Len(c) : c[i].participant = n /\ ~c[i].is_archived}
ActiveOfGift(c, n) ==
    {i \in 1..Len(c) : c[i].gift = n /\ ~c[i].is_archived}

\* Indices of the active rows of an entity table carrying numero n.
ActiveRows(t, n) == {i \in 1..Len(t) : t[i].numero = n /\ ~t[i].is_archived}

\* C1: in every reachable state each participant is referenced by at most one
\* active association and each gift is referenced by at most one active
\* association.
C1_OneToOne ==
    \A n \in Numeros :
        /\ Cardinality(ActiveOfParticipant(couples, n)) <= 1
        /\ Cardinality(ActiveOfGift(couples, n)) <= 1

\* Two active associations exist after a pairing run, next to an archived one.
C1_Witness ==
    /\ ret.op = "create_random_associations"
    /\ Len(get_associations(couples)) = 2
    /\ Len(couples) = 3

\* C2: in every reachable state each table holds at most one non-archived row
\* per numero.
C2_UniqueActive ==
    \A n \in Numeros :
        /\ Cardinality(ActiveRows(hommes, n)) <= 1
        /\ Cardinality(ActiveRows(femmes, n)) <= 1

\* An add was refused because the numero is active, on a table that also holds
\* an archived row.
C2_Witness ==
    /\ ret.op = "add_participant"
    /\ ~ret.value /\ ~ret.error
    /\ Cardinality(ActiveRows(hommes, ret.arg)) = 1
    /\ \E i \in 1..Len(hommes) : hommes[i].is_archived

\* add(x) on a table right after add(x): what the second call returns.
SecondAddParticipant == add_participant(hommes, ret.arg)
SecondAddGift == add_gift(femmes, ret.arg)

\* First half of C3: an add of a numero that is active on that side returns
\* False and changes no table.
C3_ActiveAddRefused ==
    [][/\ (ret'.op = "add_participant" /\ ActiveRows(hommes, ret'.arg) # {})
            => (~ret'.value /\ ~ret'.error
                /\ UNCHANGED <<hommes, femmes, couples>>)
       /\ (ret'.op = "add_gift" /\ ActiveRows(femmes, ret'.arg) # {})
            => (~ret'.value /\ ~ret'.error
                /\ UNCHANGED <<hommes, femmes, couples>>)]_vars

\* An add was refused for a numero that is active.
C3_ActiveAddRefusedWitness ==
    /\ ret.op = "add_gift"
    /\ ~ret.value /\ ~ret.error
    /\ ActiveRows(femmes, ret.arg) # {}

\* C3: add(x) when x is active on that side returns False and changes nothing;
\* hence, after any add(x), a second add(x) returns False and the side lists
\* exactly one active entry for x.
C3_AddTwice ==
    /\ C3_ActiveAddRefused
    /\ [](/\ ret.op = "add_participant" =>
                /\ ~SecondAddParticipant.value /\ ~SecondAddParticipant.error
                /\ Cardinality(ActiveRows(SecondAddParticipant.rows, ret.arg)) = 1
          /\ ret.op = "add_gift" =>
                /\ ~SecondAddGift.value /\ ~SecondAddGift.error
                /\ Cardinality(ActiveRows(SecondAddGift.rows, ret.arg)) = 1)

\* C4: add(x) inserts whenever x is not active on that side, also when an
\* archived row with numero x is stored: it returns True and x is listed as
\* exactly one active, unassociated entity.
C4_AddWhenNotActive ==
    [][/\ (ret'.op = "add_participant" /\ ActiveRows(hommes, ret'.arg) = {})
            => /\ ret'.value /\ ~ret'.error
               /\ Cardinality(ActiveRows(hommes', ret'.arg)) = 1
               /\ ret'.arg \in Range(get_unassociated_participants(hommes', couples'))
       /\ (ret'.op = "add_gift" /\ ActiveRows(femmes, ret'.arg) = {})
            => /\ ret'.value /\ ~ret'.error
               /\ Cardinality(ActiveRows(femmes', ret'.arg)) = 1
               /\ ret'.arg \in Range(get_unassociated_gifts(femmes', couples'))]_vars

\* Numeros of the archived rows of an entity table.
ArchivedNumeros(t) == {t[i].numero : i \in {j \in 1..Len(t) : t[j].is_archived}}

\* The association rows a step appended to the couples table.
NewCouples == SubSeq(couples', Len(couples) + 1, Len(couples'))

\* C5: no archived entity appears in get_participants / get_gifts, in
\* get_unassociated_* or in get_status, and no association a pairing run
\* creates references an entity that is archived.
C5_ArchivedExcluded ==
    /\ [](LET status == get_status(hommes, femmes, couples)
          IN  /\ Range(get_participants(hommes)) \cap ArchivedNumeros(hommes) = {}
              /\ Range(get_gifts(femmes)) \cap ArchivedNumeros(femmes) = {}
              /\ Range(get_unassociated_participants(hommes, couples))
                    \cap ArchivedNumeros(hommes) = {}
              /\ Range(get_unassociated_gifts(femmes, couples))
                    \cap ArchivedNumeros(femmes) = {}
              /\ (Range(status.participants.list_associated)
                    \cup Range(status.participants.list_unassociated))
                    \cap ArchivedNumeros(hommes) = {}
              /\ (Range(status.gifts.list_associated)
                    \cup Range(status.gifts.list_unassociated))
                    \cap ArchivedNumeros(femmes) = {}
              /\ \A i \in 1..Len(status.associations.details) :
                    /\ status.associations.details[i].participant
                            \notin ArchivedNumeros(hommes)
                    /\ status.associations.details[i].gift
                            \notin ArchivedNumeros(femmes))
    /\ [][ret'.op = "create_random_associations" =>
            \A i \in 1..Len(NewCouples) :
                /\ NewCouples[i].participant \notin ArchivedNumeros(hommes)
                /\ NewCouples[i].gift \notin ArchivedNumeros(femmes)]_vars

\* A pairing run stored an association while each side holds an archived
\* entity and an active one.
C5_Witness ==
    /\ ret.op = "create_random_associations"
    /\ ret.statistiques.couples_HF = 1
    /\ ArchivedNumeros(hommes) # {}
    /\ ArchivedNumeros(femmes) # {}
    /\ Len(get_associations(couples)) = 1

\* Table t2 is table t1 with exactly the rows at the indices in S archived.
ArchivedExactly(t1, t2, S) ==
    /\ Len(t2) = Len(t1)
    /\ \A i \in 1..Len(t1) :
        t2[i] = IF i \in S THEN [t1[i] EXCEPT !.is_archived = TRUE] ELSE t1[i]

\* C6: archive(x) of an active x returns True and archives exactly that entity
\* and, if x has an active association, that association; every other row of
\* every table is unchanged.
C6_ArchiveFrame ==
    [][/\ (ret'.op = "remove_participant" /\ ActiveRows(hommes, ret'.arg) # {})
            => /\ ret'.value
               /\ ArchivedExactly(hommes, hommes', ActiveRows(hommes, ret'.arg))
               /\ Cardinality(ActiveRows(hommes, ret'.arg)) = 1
               /\ ArchivedExactly(couples, couples',
                                  ActiveOfParticipant(couples, ret'.arg))
               /\ femmes' = femmes
       /\ (ret'.op = "remove_gift" /\ ActiveRows(femmes, ret'.arg) # {})
            => /\ ret'.value
               /\ ArchivedExactly(femmes, femmes', ActiveRows(femmes, ret'.arg))
               /\ Cardinality(ActiveRows(femmes, ret'.arg)) = 1
               /\ ArchivedExactly(couples, couples', ActiveOfGift(couples, ret'.arg))
               /\ hommes' = hommes]_vars

\* A participant with an active association was archived while another
\* association stays active.
C6_Witness ==
    /\ ret.op = "remove_participant"
    /\ ret.value /\ ret.association
    /\ Len(get_associations(couples)) >= 1

\* C7: when archive(x) is executed and x is joined to y by an active
\* association, afterwards that association is not among the active ones of
\* get_status, y is still active, y is returned by get_unassociated_* of its
\* side, which is the list the next pairing run draws from.
C7_CounterpartFreed ==
    [][/\ ret'.op = "remove_participant" =>
            \A i \in ActiveOfParticipant(couples, ret'.arg) :
                LET y == couples[i].gift
                    status == get_status(hommes', femmes', couples')
                IN  /\ ActiveRows(hommes, ret'.arg) # {} =>
                        /\ \A k \in 1..Len(status.associations.details) :
                              ~(/\ status.associations.details[k].participant = ret'.arg
                                /\ status.associations.details[k].gift = y)
                        /\ ActiveRows(femmes', y) # {}
                        /\ y \in Range(get_unassociated_gifts(femmes', couples'))
                        /\ y \in Range(status.gifts.list_unassociated)
       /\ ret'.op = "remove_gift" =>
            \A i \in ActiveOfGift(couples, ret'.arg) :
                LET y == couples[i].participant
                    status == get_status(hommes', femmes', couples')
                IN  /\ ActiveRows(femmes, ret'.arg) # {} =>
                        /\ \A k \in 1..Len(status.associations.details) :
                              ~(/\ status.associations.details[k].gift = ret'.arg
                                /\ status.associations.details[k].participant = y)
                        /\ ActiveRows(hommes', y) # {}
                        /\ y \in Range(get_unassociated_participants(hommes', couples'))
                        /\ y \in Range(status.participants.list_unassociated)]_vars

\* A gift with an active association was archived and its participant is
\* unassociated again.
C7_Witness ==
    /\ ret.op = "remove_gift"
    /\ ret.value /\ ret.association
    /\ \E i \in 1..Len(couples) :
        /\ couples[i].gift = ret.arg /\ couples[i].is_archived
        /\ couples[i].participant
                \in Range(get_unassociated_participants(hommes, couples))

\* C8: a pairing run leaves every association row that existed before it
\* (active or archived) with the same members and the same archived flag and
\* leaves both entity tables unchanged; it only appends rows.
C8_CreateFrame ==
    [][ret'.op = "create_random_associations" =>
            /\ Len(couples') >= Len(couples)
            /\ SubSeq(couples', 1, Len(couples)) = couples
            /\ hommes' = hommes
            /\ femmes' = femmes]_vars

\* A pairing run appended an association to a table that already held an
\* active and an archived one.
C8_Witness ==
    /\ ret.op = "create_random_associations"
    /\ ret.statistiques.couples_HF = 1
    /\ Len(couples) = 3
    /\ couples[1].is_archived /\ ~couples[2].is_archived /\ ~couples[3].is_archived
    /\ couples[1].participant = couples[3].participant

\* C9: a pairing run that reads the unassociated lists L and R appends exactly
\* min(|L|,|R|) active associations, each joining a member of L with a member
\* of R, no member of L or R being used twice.
C9_PairsMin ==
    [][ret'.op = "create_random_associations" =>
            LET L == get_unassociated_participants(hommes, couples)
                R == get_unassociated_gifts(femmes, couples)
            IN  /\ Len(NewCouples) = Min(Len(L), Len(R))
                /\ \A i \in 1..Len(NewCouples) :
                    /\ ~NewCouples[i].is_archived
                    /\ NewCouples[i].participant \in Range(L)
                    /\ NewCouples[i].gift \in Range(R)
                /\ \A i, j \in 1..Len(NewCouples) :
                    i # j => /\ NewCouples[i].participant # NewCouples[j].participant
                             /\ NewCouples[i].gift # NewCouples[j].gift]_vars

\* A pairing run that read two unassociated entities on each side stored two
\* associations.
C9_Witness ==
    /\ ret.op = "create_random_associations"
    /\ ret.statistiques.total_personnes = 4
    /\ ret.statistiques.couples_HF = 2
    /\ Len(get_associations(couples)) = 2

\* The H-F couples of a reported list, as association rows.
RECURSIVE ReportedHF(_)
ReportedHF(cs) ==
    IF cs = << >> THEN << >>
    ELSE (IF Head(cs).type = "H-F"
          THEN <<Couple(Head(cs).personne1, Head(cs).personne2)>>
          ELSE << >>) \o ReportedHF(Tail(cs))

\* C10: a pairing run stores only cross-kind couples it reports: every row it
\* appends is a reported H-F couple, and after the run every member of a
\* reported same-kind couple (F-F or H-H) has no active association in the
\* store and is still returned by get_unassociated_* of its side.
C10_SameKindNotStored ==
    /\ [][ret'.op = "create_random_associations" =>
            Range(NewCouples) \subseteq Range(ReportedHF(ret'.result))]_vars
    /\ [](ret.op = "create_random_associations" =>
            \A i \in 1..Len(ret.result) :
                /\ ret.result[i].type = "F-F" =>
                    \A m \in {ret.result[i].personne1, ret.result[i].personne2} :
                        /\ ActiveOfGift(couples, m) = {}
                        /\ m \in Range(get_unassociated_gifts(femmes, couples))
                /\ ret.result[i].type = "H-H" =>
                    \A m \in {ret.result[i].personne1, ret.result[i].personne2} :
                        /\ ActiveOfParticipant(couples, m) = {}
                        /\ m \in Range(get_unassociated_participants(hommes, couples)))

\* A pairing run reported an F-F couple.
C10_Witness ==
    /\ ret.op = "create_random_associations"
    /\ ret.statistiques.couples_FF = 1
    /\ Len(get_unassociated_gifts(femmes, couples)) = 2

-----------------------------------------------------------------------------
(* Stateless pairing service (services/gender_association_service.py) *)

\* Numbers a request body may carry are 1..MaxGenderNumero.
MaxGenderNumero == 4
\* Longest list of a request body.
MaxGenderLen == 3

\* The lists a request body may carry as 'femmes' or 'hommes': whole numbers,
\* which int() leaves as they are; repetitions are allowed.
GenderLists == UNION {[1..k -> 1..MaxGenderNumero] : k \in 0..MaxGenderLen}

\* validate_input without the check for numbers common to both lists.
validate_input_nocommon(data) ==
    IF Len(data.femmes) = 0 /\ Len(data.hommes) = 0
    THEN [is_valid |-> FALSE, error |-> "vide"]
    ELSE IF Len(data.femmes) # Cardinality(Range(data.femmes))
    THEN [is_valid |-> FALSE, error |-> "doublons femmes"]
    ELSE IF Len(data.hommes) # Cardinality(Range(data.hommes))
    THEN [is_valid |-> FALSE, error |-> "doublons hommes"]
    ELSE [is_valid |-> TRUE, error |-> ""]

\* validate_input without the check for repetitions in 'hommes'.
validate_input_nodup(data) ==
    IF Len(data.femmes) = 0 /\ Len(data.hommes) = 0
    THEN [is_valid |-> FALSE, error |-> "vide"]
    ELSE IF Len(data.femmes) # Cardinality(Range(data.femmes))
    THEN [is_valid |-> FALSE, error |-> "doublons femmes"]
    ELSE IF Range(data.femmes) \cap Range(data.hommes) # {}
    THEN [is_valid |-> FALSE, error |-> "communs"]
    ELSE [is_valid |-> TRUE, error |-> ""]

\* validate_input on a body holding two lists of numbers.
validate_input(data) ==
    IF Len(data.femmes) = 0 /\ Len(data.hommes) = 0
    THEN [is_valid |-> FALSE, error |-> "vide"]
    ELSE IF Len(data.femmes) # Cardinality(Range(data.femmes))
    THEN [is_valid |-> FALSE, error |-> "doublons femmes"]
    ELSE IF Len(data.hommes) # Cardinality(Range(data.hommes))
    THEN [is_valid |-> FALSE, error |-> "doublons hommes"]
    ELSE IF Range(data.femmes) \cap Range(data.hommes) # {}
    THEN [is_valid |-> FALSE, error |-> "communs"]
    ELSE [is_valid |-> TRUE, error |-> ""]

\* Step 1 of create_associations with an if in place of the while.
gender_HF_once(femmes_list, hommes_list, out) ==
    IF femmes_list = << >> \/ hommes_list = << >>
    THEN [femmes_list |-> femmes_list, hommes_list |-> hommes_list, out |-> out]
    ELSE [femmes_list |-> Front(femmes_list), hommes_list |-> Front(hommes_list),
          out |-> Append(out, [type |-> "H-F",
                               personne1 |-> hommes_list[Len(hommes_list)],
                               personne2 |-> femmes_list[Len(femmes_list)]])]

\* Step 1 of create_associations on the shuffled lists.
RECURSIVE gender_HF(_, _, _)
gender_HF(femmes_list, hommes_list, out) ==
    IF femmes_list = << >> \/ hommes_list = << >>
    THEN [femmes_list |-> femmes_list, hommes_list |-> hommes_list, out |-> out]
    ELSE LET homme == hommes_list[Len(hommes_list)]
             femme == femmes_list[Len(femmes_list)]
         IN  gender_HF(Front(femmes_list), Front(hommes_list),
                       Append(out, [type |-> "H-F", personne1 |-> homme,
                                    personne2 |-> femme]))

\* Steps 2 and 3 of create_associations tagging every couple F-F.
RECURSIVE gender_same_FF(_, _, _)
gender_same_FF(list, type, out) ==
    IF Len(list) < 2
    THEN [list |-> list, out |-> out]
    ELSE LET personne1 == list[Len(list)]
             personne2 == list[Len(list) - 1]
         IN  gender_same_FF(SubSeq(list, 1, Len(list) - 2), type,
                            Append(out, [type |-> "F-F", personne1 |-> personne1,
                                         personne2 |-> personne2]))

\* Steps 2 and 3 of create_associations: same-kind couples of the rest.
RECURSIVE gender_same(_, _, _)
gender_same(list, type, out) ==
    IF Len(list) < 2
    THEN [list |-> list, out |-> out]
    ELSE LET personne1 == list[Len(list)]
             personne2 == list[Len(list) - 1]
         IN  gender_same(SubSeq(list, 1, Len(list) - 2), type,
                         Append(out, [type |-> type, personne1 |-> personne1,
                                      personne2 |-> personne2]))

\* create_associations when the two shuffles give femmes_list and hommes_list.
create_associations(femmes_list, hommes_list) ==
    LET s1 == gender_HF(femmes_list, hommes_list, << >>)
        s2 == gender_same(s1.femmes_list, "F-F", s1.out)
        s3 == gender_same(s1.hommes_list, "H-H", s2.out)
    IN  s3.out

\* The statistiques block of associate counting one person per couple.
gender_statistiques_single(femmes_in, hommes_in, cs) ==
    [total_personnes |-> Len(femmes_in) + Len(hommes_in),
     total_couples |-> Len(cs),
     couples_HF |-> CountType(cs, "H-F"),
     couples_FF |-> CountType(cs, "F-F"),
     couples_HH |-> CountType(cs, "H-H"),
     personnes_non_associees |-> Len(femmes_in) + Len(hommes_in) - Len(cs)]

\* The statistiques block of associate.
gender_statistiques(femmes_in, hommes_in, cs) ==
    [total_personnes |-> Len(femmes_in) + Len(hommes_in),
     total_couples |-> Len(cs),
     couples_HF |-> CountType(cs, "H-F"),
     couples_FF |-> CountType(cs, "F-F"),
     couples_HH |-> CountType(cs, "H-H"),
     personnes_non_associees |-> Len(femmes_in) + Len(hommes_in) - Len(cs) * 2]

\* associate on body data when the shuffles give femmes_list and hommes_list.
associate(data, femmes_list, hommes_list) ==
    LET v == validate_input(data)
        cs == create_associations(femmes_list, hommes_list)
    IN  IF ~v.is_valid
        THEN [op |-> "associate", data |-> data, success |-> FALSE,
              error |-> v.error, couples |-> << >>,
              statistiques |-> NoStatistiques]
        ELSE [op |-> "associate", data |-> data, success |-> TRUE,
              error |-> "", couples |-> cs,
              statistiques |-> gender_statistiques(data.femmes, data.hommes, cs)]

\* A request body has arrived; the store is not involved.
InitGender ==
    /\ hommes = << >>
    /\ femmes = << >>
    /\ couples = << >>
    /\ \E W \in GenderLists, M \in GenderLists :
        ret = [op |-> "request", data |-> [femmes |-> W, hommes |-> M]]

\* POST /api/associate
Associate ==
    /\ ret.op = "request"
    /\ \E femmes_list \in Shuffles(ret.data.femmes),
          hommes_list \in Shuffles(ret.data.hommes) :
          ret' = associate(ret.data, femmes_list, hommes_list)
    /\ UNCHANGED <<hommes, femmes, couples>>

NextGender == Associate

SpecGender == InitGender /\ [][NextGender]_vars

-----------------------------------------------------------------------------
(* Properties of the stateless pairing service *)

Max(a, b) == IF a >= b THEN a ELSE b

\* The members of a reported couple.
Members(c) == {c.personne1, c.personne2}

\* A successful answer of associate.
Answered == ret.op = "associate" /\ ret.success

\* C11: for validated lists W and M the result holds min(|W|,|M|) H-F
\* couples, floor(max(|W|-|M|,0)/2) F-F couples and floor(max(|M|-|W|,0)/2)
\* H-H couples, never both F-F and H-H, and leaves (|W|+|M|) mod 2 numbers
\* in no couple.
C11_CoupleCounts ==
    Answered =>
        LET W == Len(ret.data.femmes)
            M == Len(ret.data.hommes)
            paired == UNION {Members(ret.couples[i]) : i \in 1..Len(ret.couples)}
            everyone == Range(ret.data.femmes) \cup Range(ret.data.hommes)
        IN  /\ CountType(ret.couples, "H-F") = Min(W, M)
            /\ CountType(ret.couples, "F-F") = Max(W - M, 0) \div 2
            /\ CountType(ret.couples, "H-H") = Max(M - W, 0) \div 2
            /\ ~(CountType(ret.couples, "F-F") > 0 /\ CountType(ret.couples, "H-H") > 0)
            /\ Cardinality(everyone \ paired) = (W + M) % 2

\* Three women and one man gave one H-F couple and one F-F couple.
C11_Witness ==
    /\ Answered
    /\ Len(ret.data.femmes) = 3 /\ Len(ret.data.hommes) = 1
    /\ CountType(ret.couples, "H-F") = 1
    /\ CountType(ret.couples, "F-F") = 1

\* C12: for validated lists every couple of the result joins two distinct
\* numbers of the input and no number occurs in two couples, whatever the
\* shuffles give.
C12_EachNumberOnce ==
    Answered =>
        /\ \A i \in 1..Len(ret.couples) :
            /\ ret.couples[i].personne1 # ret.couples[i].personne2
            /\ Members(ret.couples[i])
                \subseteq Range(ret.data.femmes) \cup Range(ret.data.hommes)
        /\ \A i, j \in 1..Len(ret.couples) :
            i # j => Members(ret.couples[i]) \cap Members(ret.couples[j]) = {}

\* Two couples were formed from four numbers.
C12_Witness ==
    /\ Answered
    /\ Len(ret.couples) = 2
    /\ Len(ret.data.femmes) = 2 /\ Len(ret.data.hommes) = 2

\* C13: in every result of the stateless service an H-F couple has personne1
\* from the men and personne2 from the women, an F-F couple has both members
\* from the women, an H-H couple both from the men.
C13_KindMatchesOrigin ==
    Answered =>
        \A i \in 1..Len(ret.couples) :
            LET c == ret.couples[i]
            IN  /\ c.type \in {"H-F", "F-F", "H-H"}
                /\ c.type = "H-F" => /\ c.personne1 \in Range(ret.data.hommes)
                                     /\ c.personne2 \in Range(ret.data.femmes)
                /\ c.type = "F-F" => Members(c) \subseteq Range(ret.data.femmes)
                /\ c.type = "H-H" => Members(c) \subseteq Range(ret.data.hommes)

\* One H-F couple and one H-H couple were formed.
C13_Witness ==
    /\ Answered
    /\ CountType(ret.couples, "H-F") = 1
    /\ CountType(ret.couples, "H-H") = 1

\* C13 for the store-backed run: the members of the reported couples come from
\* the unassociated lists the run read (the entity tables are unchanged by it).
C13_StoreKindMatchesOrigin ==
    [][ret'.op = "create_random_associations" =>
        \A i \in 1..Len(ret'.result) :
            LET c == ret'.result[i]
                H == Range(get_unassociated_participants(hommes, couples))
                F == Range(get_unassociated_gifts(femmes, couples))
            IN  /\ c.type \in {"H-F", "F-F", "H-H"}
                /\ c.type = "H-F" => c.personne1 \in H /\ c.personne2 \in F
                /\ c.type = "F-F" => Members(c) \subseteq F
                /\ c.type = "H-H" => Members(c) \subseteq H]_vars

\* C14: in every successful result total_personnes = |W|+|M|, total_couples is
\* the sum of the three counts and the length of couples, and
\* personnes_non_associees = total_personnes - 2*total_couples, 0 or 1.
C14_StatistiquesConsistent ==
    Answered =>
        LET st == ret.statistiques
        IN  /\ st.total_personnes = Len(ret.data.femmes) + Len(ret.data.hommes)
            /\ st.total_couples = st.couples_HF + st.couples_FF + st.couples_HH
            /\ st.total_couples = Len(ret.couples)
            /\ st.personnes_non_associees = st.total_personnes - 2 * st.total_couples
            /\ st.personnes_non_associees \in {0, 1}

\* Three people gave one couple and one person alone.
C14_Witness ==
    /\ Answered
    /\ ret.statistiques.total_personnes = 3
    /\ ret.statistiques.total_couples = 1
    /\ ret.statistiques.personnes_non_associees = 1

\* C14 for the store-backed run, whose statistiques count the people left in
\* the two lists.
C14_StoreStatistiquesConsistent ==
    [][ret'.op = "create_random_associations" =>
        LET st == ret'.statistiques
        IN  /\ st.total_personnes
                = Len(get_unassociated_participants(hommes, couples))
                  + Len(get_unassociated_gifts(femmes, couples))
            /\ st.total_couples = st.couples_HF + st.couples_FF + st.couples_HH
            /\ st.total_couples = Len(ret'.result)
            /\ st.personnes_non_associees = st.total_personnes - 2 * st.total_couples
            /\ st.personnes_non_associees \in {0, 1}]_vars

-----------------------------------------------------------------------------
(* Further properties of the store and of the store-backed pairing run *)

\* C16: in the couples a store-backed pairing run reports no number appears in
\* more than one couple.
C16_NumberInOneCouple ==
    ret.op = "create_random_associations" =>
        \A i, j \in 1..Len(ret.result) :
            i # j => Members(ret.result[i]) \cap Members(ret.result[j]) = {}

\* C17 as stated: when the unassociated participants outnumber the
\* unassociated gifts the pairing run fails and creates no association.
C17_InsufficientCapacity ==
    [][(/\ ret'.op = "create_random_associations"
        /\ Len(get_unassociated_participants(hommes, couples))
            > Len(get_unassociated_gifts(femmes, couples)))
        => (~ret'.value /\ couples' = couples)]_vars

\* C17 amended: when the unassociated participants outnumber the unassociated
\* gifts the pairing run succeeds, creates one association per unassociated
\* gift and leaves the surplus participants unassociated.
C17_BestEffort ==
    [][(/\ ret'.op = "create_random_associations"
        /\ Len(get_unassociated_participants(hommes, couples))
            > Len(get_unassociated_gifts(femmes, couples)))
        => /\ ret'.value
           /\ Len(NewCouples) = Len(get_unassociated_gifts(femmes, couples))
           /\ get_unassociated_gifts(femmes', couples') = << >>
           /\ Len(get_unassociated_participants(hommes', couples'))
                = Len(get_unassociated_participants(hommes, couples))
                  - Len(get_unassociated_gifts(femmes, couples))]_vars

\* A pairing run that read two participants and one gift stored one
\* association and left one participant.
C17_Witness ==
    /\ ret.op = "create_random_associations"
    /\ ret.value
    /\ ret.statistiques.total_personnes = 3
    /\ ret.statistiques.couples_HF = 1
    /\ Len(get_unassociated_participants(hommes, couples)) = 1
    /\ get_unassociated_gifts(femmes, couples) = << >>

\* Number of rows of a table that are not archived.
NbActive(t) == Cardinality({i \in 1..Len(t) : ~t[i].is_archived})

\* C18: get_status is computed from the current tables: on each side total is
\* the number of active entities, list_unassociated is what get_unassociated_*
\* returns and total = associated + unassociated; associations.total is the
\* number of active associations.
C18_StatusLive ==
    LET st == get_status(hommes, femmes, couples)
    IN  /\ st.participants.total = NbActive(hommes)
        /\ st.participants.list_unassociated
                = get_unassociated_participants(hommes, couples)
        /\ st.participants.unassociated = Len(st.participants.list_unassociated)
        /\ st.participants.total
                = st.participants.associated + st.participants.unassociated
        /\ st.gifts.total = NbActive(femmes)
        /\ st.gifts.list_unassociated = get_unassociated_gifts(femmes, couples)
        /\ st.gifts.unassociated = Len(st.gifts.list_unassociated)
        /\ st.gifts.total = st.gifts.associated + st.gifts.unassociated
        /\ st.associations.total = NbActive(couples)

\* The tables hold an archived association, an active one and an unassociated
\* participant.
C18_Witness ==
    /\ \E i \in 1..Len(couples) : couples[i].is_archived
    /\ NbActive(couples) = 1
    /\ Len(get_unassociated_participants(hommes, couples)) = 1
    /\ NbActive(hommes) = 2

\* C19: reset_associations returns the number of associations that were
\* active, leaves no active association, leaves the active entities of both
\* sides as they were, and afterwards every active entity is unassociated.
C19_ResetAssociations ==
    [][ret'.op = "reset_associations" =>
        /\ ret'.count = NbActive(couples)
        /\ NbActive(couples') = 0
        /\ get_participants(hommes') = get_participants(hommes)
        /\ get_gifts(femmes') = get_gifts(femmes)
        /\ get_unassociated_participants(hommes', couples') = get_participants(hommes')
        /\ get_unassociated_gifts(femmes', couples') = get_gifts(femmes')]_vars

\* Two active associations were deleted; an archived one is still stored.
C19_Witness ==
    /\ ret.op = "reset_associations"
    /\ ret.count = 2
    /\ Len(couples) = 1
    /\ Len(get_unassociated_participants(hommes, couples)) = 2

\* C20: after reset no table holds a row, archived or not, and every numero
\* can be added again on either side with add returning True.
C20_ResetAll ==
    [][ret'.op = "reset" =>
        /\ hommes' = << >> /\ femmes' = << >> /\ couples' = << >>
        /\ \A n \in Numeros :
            /\ add_participant(hommes', n).value /\ ~add_participant(hommes', n).error
            /\ add_gift(femmes', n).value /\ ~add_gift(femmes', n).error]_vars

\* The tables are empty after a reset.
C20_Witness ==
    /\ ret.op = "reset"
    /\ hommes = << >> /\ femmes = << >> /\ couples = << >>

-----------------------------------------------------------------------------
(* Archiving an association, refused archives, bulk adds *)

\* Index of the active association of participant n in c, 0 if none.
ActiveIndex(c, n) == First(c, LAMBDA a : a.participant = n /\ ~a.is_archived)

\* C21: remove_association(p) for an active participant p with an active
\* association (p, g) returns True and archives that association only: no
\* entity row changes, p and g are both unassociated afterwards, so g is in
\* the list the next pairing run reads.
C21_ArchivePairing ==
    [][(/\ ret'.op = "remove_association"
        /\ ActiveRows(hommes, ret'.arg) # {}
        /\ ActiveIndex(couples, ret'.arg) # 0)
        => LET i == ActiveIndex(couples, ret'.arg)
               g == couples[i].gift
           IN  /\ ret'.value
               /\ couples' = Archive(couples, i)
               /\ hommes' = hommes /\ femmes' = femmes
               /\ ActiveRows(hommes', ret'.arg) # {}
               /\ ActiveRows(femmes', g) # {}
               /\ ret'.arg \in Range(get_unassociated_participants(hommes', couples'))
               /\ g \in Range(get_unassociated_gifts(femmes', couples'))]_vars

\* An association was archived on request while another one stays active, and
\* both of its members are unassociated.
C21_Witness ==
    /\ ret.op = "remove_association"
    /\ ret.value
    /\ NbActive(couples) = 1
    /\ \E i \in 1..Len(couples) :
        /\ couples[i].is_archived
        /\ couples[i].participant = ret.arg
        /\ couples[i].gift \in Range(get_unassociated_gifts(femmes, couples))
    /\ ret.arg \in Range(get_unassociated_participants(hommes, couples))

\* C22: remove_participant / remove_gift of a numero with no active row, and
\* remove_association of a participant with no active association, return
\* False and change no table; a remove that succeeded returns False when it
\* is issued again at once.
C22_NotFound ==
    [][/\ (ret'.op = "remove_participant" /\ ActiveRows(hommes, ret'.arg) = {})
            => (~ret'.value /\ hommes' = hommes /\ femmes' = femmes /\ couples' = couples)
       /\ (ret'.op = "remove_gift" /\ ActiveRows(femmes, ret'.arg) = {})
            => (~ret'.value /\ hommes' = hommes /\ femmes' = femmes /\ couples' = couples)
       /\ (ret'.op = "remove_association" /\ ActiveIndex(couples, ret'.arg) = 0)
            => (~ret'.value /\ hommes' = hommes /\ femmes' = femmes /\ couples' = couples)
       /\ (ret'.op = "remove_participant" /\ ret'.value)
            => LET r == remove_participant(hommes', couples', ret'.arg)
               IN  ~r.value /\ r.rows = hommes' /\ r.couples = couples'
       /\ (ret'.op = "remove_gift" /\ ret'.value)
            => LET r == remove_gift(femmes', couples', ret'.arg)
               IN  ~r.value /\ r.rows = femmes' /\ r.couples = couples'
       /\ (ret'.op = "remove_association" /\ ret'.value)
            => LET r == remove_association(couples', ret'.arg)
               IN  ~r.value /\ r.couples = couples']_vars

\* A remove of a participant that is stored but already archived was refused.
C22_Witness ==
    /\ ret.op = "remove_participant"
    /\ ~ret.value
    /\ \E i \in 1..Len(hommes) : hommes[i].numero = ret.arg /\ hommes[i].is_archived
    /\ ActiveRows(hommes, ret.arg) = {}

\* The elements of l at the positions in K, in the order of l.
SeqOfIdx(l, K) ==
    [n \in 1..Cardinality(K) |->
        l[CHOOSE i \in K : Cardinality({j \in K : j < i}) = n - 1]]

\* Positions of l whose element is neither in A nor earlier in l.
FreshIdx(l, A) == {i \in 1..Len(l) : l[i] \notin A /\ \A j \in 1..(i - 1) : l[j] # l[i]}

\* Numeros with an active row in t.
ActiveNumeros(t) == {t[i].numero : i \in {j \in 1..Len(t) : ~t[j].is_archived}}

\* What the bulk add of l is to answer and store over table t, t2 being the
\* table afterwards.
BulkAsClaimed(t, t2, l, added, ignored) ==
    /\ added = SeqOfIdx(l, FreshIdx(l, ActiveNumeros(t)))
    /\ ignored = SeqOfIdx(l, (1..Len(l)) \ FreshIdx(l, ActiveNumeros(t)))
    /\ Len(added) + Len(ignored) = Len(l)
    /\ ActiveNumeros(t2) = ActiveNumeros(t) \cup Range(l)
    /\ \A n \in Range(l) : Cardinality(ActiveRows(t2, n)) = 1

\* C23: a bulk add answers with added and ignored, the order-preserving
\* subsequences of the input holding the elements that had no active row when
\* they were processed and the others, every input element exactly once.
C23_BulkPartition ==
    [][/\ ret'.op = "add_participants_bulk"
            => BulkAsClaimed(hommes, hommes', ret'.args, ret'.added, ret'.ignored)
       /\ ret'.op = "add_gifts_bulk"
            => BulkAsClaimed(femmes, femmes', ret'.args, ret'.added, ret'.ignored)]_vars

\* C23 for inputs none of whose elements is stored as an archived row only.
C23_BulkPartitionNoArchived ==
    [][/\ (/\ ret'.op = "add_participants_bulk"
           /\ Range(ret'.args) \cap (ArchivedNumeros(hommes) \ ActiveNumeros(hommes)) = {})
            => /\ ~ret'.error
               /\ BulkAsClaimed(hommes, hommes', ret'.args, ret'.added, ret'.ignored)
       /\ (/\ ret'.op = "add_gifts_bulk"
           /\ Range(ret'.args) \cap (ArchivedNumeros(femmes) \ ActiveNumeros(femmes)) = {})
            => /\ ~ret'.error
               /\ BulkAsClaimed(femmes, femmes', ret'.args, ret'.added, ret'.ignored)]_vars

\* A bulk add of the same numero twice added it once and ignored it once.
C23_NoArchivedWitness ==
    /\ ret.op = "add_participants_bulk"
    /\ Len(ret.args) = 2 /\ ret.args[1] = ret.args[2]
    /\ ret.added = <<ret.args[1]>> /\ ret.ignored = <<ret.args[1]>>

-----------------------------------------------------------------------------
(* The pairing run and the store, one request at a time *)

\* C28 when requests run one at a time: add_association never declines during
\* a pairing run, and the H-F couples reported are the rows the run stored.
C28_SequentialReportedStored ==
    [][ret'.op = "create_random_associations" =>
        /\ Len(NewCouples) = CountType(ret'.result, "H-F")
        /\ \A i \in 1..Len(NewCouples) :
            /\ ~NewCouples[i].is_archived
            /\ \E j \in 1..Len(ret'.result) :
                /\ ret'.result[j].type = "H-F"
                /\ ret'.result[j].personne1 = NewCouples[i].participant
                /\ ret'.result[j].personne2 = NewCouples[i].gift
        /\ SubSeq(couples', 1, Len(couples)) = couples]_vars

\* C29: when a pairing run has completed, the unassociated participants or the
\* unassociated gifts are empty, and a second run issued at once stores no
\* association, whatever its shuffles give.
C29_OneSideExhausted ==
    [][ret'.op = "create_random_associations" =>
        /\ \/ get_unassociated_participants(hommes', couples') = << >>
           \/ get_unassociated_gifts(femmes', couples') = << >>
        /\ \A hommes_list \in Shuffles(get_unassociated_participants(hommes', couples')),
              femmes_list \in Shuffles(get_unassociated_gifts(femmes', couples')) :
              create_random_associations(hommes', femmes', couples',
                                         hommes_list, femmes_list).couples = couples']_vars

\* A run paired the only participant and left one of two gifts unassociated.
C29_Witness ==
    /\ ret.op = "create_random_associations"
    /\ ret.statistiques.total_personnes = 3
    /\ ret.statistiques.couples_HF = 1
    /\ get_unassociated_participants(hommes, couples) = << >>
    /\ Len(get_unassociated_gifts(femmes, couples)) = 1

\* C30: both members of every active association are active entities, the
\* participant in hommes and the gift in femmes.
C30_ActiveMembers ==
    \A i \in 1..Len(couples) :
        ~couples[i].is_archived =>
            /\ ActiveRows(hommes, couples[i].participant) # {}
            /\ ActiveRows(femmes, couples[i].gift) # {}

\* An association is active beside an archived one whose gift was archived.
C30_Witness ==
    /\ NbActive(couples) = 1
    /\ \E i \in 1..Len(couples) :
        /\ couples[i].is_archived
        /\ ActiveRows(femmes, couples[i].gift) = {}
        /\ couples[i].gift \in ArchivedNumeros(femmes)

-----------------------------------------------------------------------------
(* Pairing runs served at the same time                                    *)
(*                                                                         *)
(* Every request is served by its own thread; the threads share the store. *)
(* A pairing run (services/association_service.py) makes one store call    *)
(* after the other: get_unassociated_participants, get_unassociated_gifts, *)
(* then one add_association per H-F couple.  Each store call is one step;  *)
(* the steps of different runs interleave in any order.  ret holds, for    *)
(* each run, its position and its local variables.                         *)

\* Number of pairing runs in flight.
MaxCalls == 2
\* The stored hommes and femmes are numbered within 1..MaxRaceNumero.
MaxRaceNumero == 2

Calls == 1..MaxCalls

\* Lists of distinct numeros: what a table of active rows can hold.
DistinctLists ==
    {l \in UNION {[1..k -> 1..MaxRaceNumero] : k \in 0..MaxRaceNumero} :
        \A i, j \in 1..Len(l) : l[i] = l[j] => i = j}

\* A run before its first store call.  hommes, femmes, hommes_list,
\* femmes_list and couples are the local variables of the run; seen is the
\* number of rows the couples table held when the run read the femmes, stored
\* the rows of the couples table the run inserted, declined the couples for
\* which add_association returned False.
CallStart ==
    [pc |-> "start", hommes |-> << >>, femmes |-> << >>, hommes_list |-> << >>,
     femmes_list |-> << >>, couples |-> << >>, seen |-> 0, stored |-> << >>,
     declined |-> << >>]

InitRace ==
    /\ \E H, F \in DistinctLists :
        /\ hommes = [i \in 1..Len(H) |-> Homme(H[i])]
        /\ femmes = [i \in 1..Len(F) |-> Femme(F[i])]
    /\ couples = << >>
    /\ ret = [op |-> "race", calls |-> [p \in Calls |-> CallStart]]

\* hommes = store.get_unassociated_participants()
RaceGetHommes(p) ==
    /\ ret.calls[p].pc = "start"
    /\ ret' = [ret EXCEPT !.calls[p].pc = "hommes_read",
                          !.calls[p].hommes =
                              get_unassociated_participants(hommes, couples)]
    /\ UNCHANGED <<hommes, femmes, couples>>

\* femmes = store.get_unassociated_gifts(); the early return when both lists
\* are empty; otherwise the copies and the two shuffles.
RaceGetFemmes(p) ==
    /\ ret.calls[p].pc = "hommes_read"
    /\ LET femmes0 == get_unassociated_gifts(femmes, couples)
       IN  IF ret.calls[p].hommes = << >> /\ femmes0 = << >>
           THEN ret' = [ret EXCEPT !.calls[p].pc = "done",
                                   !.calls[p].seen = Len(couples)]
           ELSE \E hommes_list \in Shuffles(ret.calls[p].hommes),
                   femmes_list \in Shuffles(femmes0) :
                   ret' = [ret EXCEPT !.calls[p].pc = "loop",
                                      !.calls[p].femmes = femmes0,
                                      !.calls[p].seen = Len(couples),
                                      !.calls[p].hommes_list = hommes_list,
                                      !.calls[p].femmes_list = femmes_list]
    /\ UNCHANGED <<hommes, femmes, couples>>

\* One turn of the H-F loop: the two pops, store.add_association(homme, femme)
\* and the append to the local couples, whatever add_association returned.
RaceAddAssociation(p) ==
    LET call == ret.calls[p]
    IN  /\ call.pc = "loop"
        /\ call.hommes_list # << >> /\ call.femmes_list # << >>
        /\ LET homme == call.hommes_list[Len(call.hommes_list)]
               femme == call.femmes_list[Len(call.femmes_list)]
               r == add_association(couples, homme, femme)
               couple == [type |-> "H-F", personne1 |-> homme, personne2 |-> femme]
           IN  /\ couples' = r.couples
               /\ ret' = [ret EXCEPT
                    !.calls[p].hommes_list = Front(call.hommes_list),
                    !.calls[p].femmes_list = Front(call.femmes_list),
                    !.calls[p].couples = Append(call.couples, couple),
                    !.calls[p].stored =
                        IF r.value THEN Append(call.stored, Len(r.couples))
                        ELSE call.stored,
                    !.calls[p].declined =
                        IF r.value THEN call.declined
                        ELSE Append(call.declined, couple)]
        /\ UNCHANGED <<hommes, femmes>>

\* The H-F loop is left: the same-kind couples are formed from what remains
\* (no store call) and the run returns.
RaceReturn(p) ==
    LET call == ret.calls[p]
    IN  /\ call.pc = "loop"
        /\ call.hommes_list = << >> \/ call.femmes_list = << >>
        /\ LET s2 == associate_same(call.femmes_list, "F-F", couples, call.couples)
               s3 == associate_same(call.hommes_list, "H-H", s2.couples, s2.out)
           IN  ret' = [ret EXCEPT !.calls[p].pc = "done",
                                  !.calls[p].femmes_list = s2.list,
                                  !.calls[p].hommes_list = s3.list,
                                  !.calls[p].couples = s3.out]
        /\ UNCHANGED <<hommes, femmes, couples>>

\* DELETE /associations/<participant> served while runs are in flight.
RaceDeleteAssociation(n) ==
    LET r == remove_association(couples, n)
    IN  /\ ActiveRows(hommes, n) # {}
        /\ r.value
        /\ couples' = r.couples
        /\ UNCHANGED <<hommes, femmes, ret>>

NextRace ==
    \/ \E p \in Calls : RaceGetHommes(p)
    \/ \E p \in Calls : RaceGetFemmes(p)
    \/ \E p \in Calls : RaceAddAssociation(p)
    \/ \E p \in Calls : RaceReturn(p)
    \/ \E n \in 1..MaxRaceNumero : RaceDeleteAssociation(n)

SpecRace == InitRace /\ [][NextRace]_vars

-----------------------------------------------------------------------------
(* Properties of pairing runs served at the same time *)

\* Pairs of active rows of the couples table that hold the same gift.
GiftTwice ==
    {ij \in (1..Len(couples)) \X (1..Len(couples)) :
        /\ ij[1] < ij[2]
        /\ ~couples[ij[1]].is_archived /\ ~couples[ij[2]].is_archived
        /\ couples[ij[1]].gift = couples[ij[2]].gift}

\* Run p inserted row i of the couples table.
StoredBy(p, i) == \E k \in 1..Len(ret.calls[p].stored) : ret.calls[p].stored[k] = i

\* C26: one femme is referenced by two active associations exactly in the way
\* the race describes: the two rows were inserted by two different runs, and
\* the run that inserted the later row had read the unassociated femmes before
\* the earlier row was inserted.  (That such a state is reached is C26_Witness.)
C26_GiftTwiceByRace ==
    \A ij \in GiftTwice :
        \E p, q \in Calls :
            /\ p # q
            /\ StoredBy(p, ij[1]) /\ StoredBy(q, ij[2])
            /\ ret.calls[q].seen < ij[1]
            /\ ret.calls[q].pc \in {"loop", "done"}

\* Both runs have returned and one femme is referenced by two active
\* associations.
C26_Witness ==
    /\ ret.op = "race"
    /\ \A p \in Calls : ret.calls[p].pc = "done"
    /\ GiftTwice # {}

\* C27: no homme is referenced by two active associations, however the store
\* calls of the runs interleave.
C27_ParticipantOnce ==
    \A i, j \in 1..Len(couples) :
        (/\ i # j
         /\ ~couples[i].is_archived /\ ~couples[j].is_archived)
            => couples[i].participant # couples[j].participant

\* add_association found the homme already associated by the other run and
\* declined.
C27_Witness ==
    /\ ret.op = "race"
    /\ \E p \in Calls :
        /\ ret.calls[p].declined # << >>
        /\ \E i \in 1..Len(couples) :
            /\ ~couples[i].is_archived
            /\ couples[i].participant = ret.calls[p].declined[1].personne1
            /\ ~StoredBy(p, i)

\* C28: the H-F couples a run reports are the rows it inserted: no couple is
\* reported for which add_association returned False.
C28_ReportedStored ==
    ret.op = "race" =>
        \A p \in Calls :
            /\ ret.calls[p].declined = << >>
            /\ CountType(ret.calls[p].couples, "H-F") = Len(ret.calls[p].stored)

-----------------------------------------------------------------------------
(* Authentication (utils/auth.py, routes/auth.py) and the HTTP routes       *)
(*                                                                         *)
(* A request carries no Authorization header, a string that is not a token *)
(* signed with SECRET_KEY, or a token the server issued.  ret holds the    *)
(* tokens issued so far, the jti of those whose exp has passed, the        *)
(* token_blocklist table, whether the admin row exists, and the last       *)
(* request with its status code.                                           *)

\* Cap on the number of tokens issued.
MaxTokens == 3
\* The entity routes are called with numeros 1..MaxAuthNumero.
MaxAuthNumero == 1

\* A request without Authorization header, and one with an unsigned string.
NoCred == 0
Garbage == -1

\* The credentials a request can carry; an issued token is named by its jti.
Credentials == {NoCred, Garbage} \cup 1..Len(ret.tokens)

\* decode_token without the blocklist lookup.
decode_token_noblock(cred) ==
    IF cred = Garbage THEN "invalid"
    ELSE IF cred \in ret.expired THEN "expired"
    ELSE "ok"

\* decode_token: jwt.decode checks signature and exp, then the jti is looked
\* up in the blocklist.
decode_token(cred) ==
    IF cred = Garbage THEN "invalid"
    ELSE IF cred \in ret.expired THEN "expired"
    ELSE IF cred \in ret.blocklist THEN "revoked"
    ELSE "ok"

verify_jwt_in_request(cred) ==
    IF cred = NoCred THEN "missing" ELSE decode_token(cred)

\* The decorator lets the request through to the route.
token_required(cred) ==
    /\ verify_jwt_in_request(cred) = "ok"
    /\ ret.tokens[cred].type = "access"

AuthStart ==
    [op |-> "none", cred |-> NoCred, status |-> 0, tokens |-> << >>,
     expired |-> {}, blocklist |-> {}, admin |-> TRUE]

InitAuth ==
    /\ hommes = << >>
    /\ femmes = << >>
    /\ couples = << >>
    /\ ret = AuthStart

\* The answer to a request: which route, with which credential, which status.
Respond(op, cred, status) ==
    [ret EXCEPT !.op = op, !.cred = cred, !.status = status]

\* POST /auth/login with the admin's username and password
AuthLogin ==
    /\ ret.admin
    /\ Len(ret.tokens) + 2 <= MaxTokens
    /\ ret' = [Respond("login", NoCred, 200) EXCEPT
                !.tokens = ret.tokens \o <<[type |-> "access"], [type |-> "refresh"]>>]
    /\ UNCHANGED <<hommes, femmes, couples>>

\* POST /auth/login with a missing field (400) or wrong credentials (401)
AuthLoginRefused ==
    /\ \E status \in {400, 401} : ret' = Respond("login", NoCred, status)
    /\ UNCHANGED <<hommes, femmes, couples>>

\* POST /auth/logout
AuthLogout(cred) ==
    /\ IF cred = NoCred
       THEN ret' = Respond("logout", cred, 200)
       ELSE IF decode_token(cred) = "ok"
       THEN ret' = [Respond("logout", cred, 200) EXCEPT
                        !.blocklist = ret.blocklist \cup {cred}]
       ELSE ret' = Respond("logout", cred, 400)
    /\ UNCHANGED <<hommes, femmes, couples>>

\* POST /auth/refresh
AuthRefresh(cred) ==
    /\ IF cred = NoCred
       THEN ret' = Respond("refresh", cred, 400)
       ELSE IF decode_token(cred) # "ok"
       THEN ret' = Respond("refresh", cred, 401)
       ELSE IF ret.tokens[cred].type # "refresh"
       THEN ret' = Respond("refresh", cred, 400)
       ELSE IF ~ret.admin
       THEN ret' = Respond("refresh", cred, 404)
       ELSE /\ Len(ret.tokens) < MaxTokens
            /\ ret' = [Respond("refresh", cred, 200) EXCEPT
                        !.tokens = Append(ret.tokens, [type |-> "access"])]
    /\ UNCHANGED <<hommes, femmes, couples>>

\* GET /auth/me
AuthMe(cred) ==
    /\ IF verify_jwt_in_request(cred) # "ok"
       THEN ret' = Respond("me", cred, 401)
       ELSE IF ret.tokens[cred].type # "access"
       THEN ret' = Respond("me", cred, 401)
       ELSE IF ~ret.admin
       THEN ret' = Respond("me", cred, 404)
       ELSE ret' = Respond("me", cred, 200)
    /\ UNCHANGED <<hommes, femmes, couples>>

\* Time passes the exp of token jti.
Expire(jti) ==
    /\ jti \in 1..Len(ret.tokens)
    /\ jti \notin ret.expired
    /\ ret' = [ret EXCEPT !.expired = ret.expired \cup {jti}]
    /\ UNCHANGED <<hommes, femmes, couples>>

\* python admin.py delete / create.  SQLite does not enforce the foreign key
\* of token_blocklist (no PRAGMA foreign_keys), so the blocklist keeps its rows.
DeleteAdmin ==
    /\ ret.admin
    /\ ret' = [ret EXCEPT !.admin = FALSE]
    /\ UNCHANGED <<hommes, femmes, couples>>

CreateAdmin ==
    /\ ~ret.admin
    /\ ret' = [ret EXCEPT !.admin = TRUE]
    /\ UNCHANGED <<hommes, femmes, couples>>

\* A route under @token_required answering 401 without running.
Refused(op, cred) ==
    /\ ~token_required(cred)
    /\ ret' = Respond(op, cred, 401)
    /\ UNCHANGED <<hommes, femmes, couples>>

\* POST /participants (an exception of the route is caught by the decorator,
\* which answers 401)
HttpAddParticipant(cred, n) ==
    \/ Refused("add_participant", cred)
    \/ /\ token_required(cred)
       /\ LET r == add_participant(hommes, n)
          IN  /\ hommes' = r.rows
              /\ ret' = Respond("add_participant", cred,
                                IF r.error THEN 401 ELSE IF r.value THEN 201 ELSE 400)
       /\ UNCHANGED <<femmes, couples>>

\* POST /gifts
HttpAddGift(cred, n) ==
    \/ Refused("add_gift", cred)
    \/ /\ token_required(cred)
       /\ LET r == add_gift(femmes, n)
          IN  /\ femmes' = r.rows
              /\ ret' = Respond("add_gift", cred,
                                IF r.error THEN 401 ELSE IF r.value THEN 201 ELSE 400)
       /\ UNCHANGED <<hommes, couples>>

\* POST /participants/bulk
HttpAddParticipantsBulk(cred, l) ==
    \/ Refused("add_participants_bulk", cred)
    \/ /\ token_required(cred)
       /\ LET r == add_participants_bulk(hommes, l)
          IN  /\ hommes' = r.rows
              /\ ret' = Respond("add_participants_bulk", cred,
                                IF r.error THEN 401 ELSE 201)
       /\ UNCHANGED <<femmes, couples>>

\* POST /gifts/bulk
HttpAddGiftsBulk(cred, l) ==
    \/ Refused("add_gifts_bulk", cred)
    \/ /\ token_required(cred)
       /\ LET r == add_gifts_bulk(femmes, l)
          IN  /\ femmes' = r.rows
              /\ ret' = Respond("add_gifts_bulk", cred, IF r.error THEN 401 ELSE 201)
       /\ UNCHANGED <<hommes, couples>>

\* DELETE /participants/<participant>
HttpRemoveParticipant(cred, n) ==
    \/ Refused("remove_participant", cred)
    \/ /\ token_required(cred)
       /\ LET r == remove_participant(hommes, couples, n)
          IN  /\ hommes' = r.rows
              /\ couples' = r.couples
              /\ ret' = Respond("remove_participant", cred,
                                IF r.value THEN 200 ELSE 404)
       /\ UNCHANGED femmes

\* DELETE /gifts/<gift>
HttpRemoveGift(cred, n) ==
    \/ Refused("remove_gift", cred)
    \/ /\ token_required(cred)
       /\ LET r == remove_gift(femmes, couples, n)
          IN  /\ femmes' = r.rows
              /\ couples' = r.couples
              /\ ret' = Respond("remove_gift", cred, IF r.value THEN 200 ELSE 404)
       /\ UNCHANGED hommes

\* POST /associate
HttpCreateAssociations(cred) ==
    \/ Refused("create_random_associations", cred)
    \/ /\ token_required(cred)
       /\ Len(couples) + Min(Len(get_unassociated_participants(hommes, couples)),
                             Len(get_unassociated_gifts(femmes, couples))) <= MaxCouples
       /\ \E hommes_list \in Shuffles(get_unassociated_participants(hommes, couples)),
             femmes_list \in Shuffles(get_unassociated_gifts(femmes, couples)) :
             couples' = create_random_associations(hommes, femmes, couples,
                                                   hommes_list, femmes_list).couples
       /\ ret' = Respond("create_random_associations", cred, 200)
       /\ UNCHANGED <<hommes, femmes>>

\* DELETE /associations/<participant>
HttpDeleteAssociation(cred, n) ==
    \/ Refused("remove_association", cred)
    \/ /\ token_required(cred)
       /\ LET known == ActiveRows(hommes, n) # {}
              r == remove_association(couples, n)
          IN  /\ couples' = IF known THEN r.couples ELSE couples
              /\ ret' = Respond("remove_association", cred,
                                IF known /\ r.value THEN 200 ELSE 404)
       /\ UNCHANGED <<hommes, femmes>>

\* DELETE /reset: the route carries no @token_required.
HttpReset(cred) ==
    /\ hommes' = reset.hommes
    /\ femmes' = reset.femmes
    /\ couples' = reset.couples
    /\ ret' = Respond("reset", cred, 200)

\* DELETE /reset/associations: the route carries no @token_required.
HttpResetAssociations(cred) ==
    /\ couples' = reset_associations(couples).couples
    /\ ret' = Respond("reset_associations", cred, 200)
    /\ UNCHANGED <<hommes, femmes>>

AuthNumeros == 1..MaxAuthNumero

AuthBulkInputs == UNION {[1..k -> AuthNumeros] : k \in 1..MaxBulk}

NextAuth ==
    \/ AuthLogin
    \/ AuthLoginRefused
    \/ \E cred \in Credentials : AuthLogout(cred)
    \/ \E cred \in Credentials : AuthRefresh(cred)
    \/ \E cred \in Credentials : AuthMe(cred)
    \/ \E jti \in 1..MaxTokens : Expire(jti)
    \/ DeleteAdmin
    \/ CreateAdmin
    \/ \E cred \in Credentials, n \in AuthNumeros : HttpAddParticipant(cred, n)
    \/ \E cred \in Credentials, n \in AuthNumeros : HttpAddGift(cred, n)
    \/ \E cred \in Credentials, l \in AuthBulkInputs : HttpAddParticipantsBulk(cred, l)
    \/ \E cred \in Credentials, l \in AuthBulkInputs : HttpAddGiftsBulk(cred, l)
    \/ \E cred \in Credentials, n \in AuthNumeros : HttpRemoveParticipant(cred, n)
    \/ \E cred \in Credentials, n \in AuthNumeros : HttpRemoveGift(cred, n)
    \/ \E cred \in Credentials : HttpCreateAssociations(cred)
    \/ \E cred \in Credentials, n \in AuthNumeros : HttpDeleteAssociation(cred, n)
    \/ \E cred \in Credentials : HttpReset(cred)
    \/ \E cred \in Credentials : HttpResetAssociations(cred)

SpecAuth == InitAuth /\ [][NextAuth]_vars

-----------------------------------------------------------------------------
(* Properties of authentication *)

\* The three tables.
Store == <<hommes, femmes, couples>>

C24_DecoratedRoutesGuarded ==
    [][(Store' # Store /\ ret'.op \notin {"reset", "reset_associations"})
        => token_required(ret'.cred)]_vars

\* A decorated route refused a request without Authorization header while
\* the tables hold rows.
C24_DecoratedWitness ==
    /\ ret.op = "remove_participant"
    /\ ret.cred = NoCred
    /\ ret.status = 401
    /\ NbActive(hommes) = 1

\* C25: a token whose jti is in the blocklist stays there, and every request
\* that carries it is rejected: the routes under @token_required and /auth/me
\* answer 401 and change no table, /auth/refresh answers 401 and issues no
\* token.
C25_RevokedRejected ==
    [][/\ ret.blocklist \subseteq ret'.blocklist
       /\ (ret'.cred \in ret.blocklist /\ ret'.op \notin {"none", "login", "logout",
                                                          "reset", "reset_associations"})
            => /\ ret'.status = 401
               /\ ret'.tokens = ret.tokens
               /\ Store' = Store]_vars

\* A refresh token that logout had revoked, and that has not expired, was
\* presented to /auth/refresh and refused.
C25_Witness ==
    /\ ret.op = "refresh"
    /\ ret.cred \in ret.blocklist
    /\ ret.cred \notin ret.expired
    /\ ret.tokens[ret.cred].type = "refresh"
    /\ ret.status = 401
    /\ ret.admin

====
